---- MODULE Spec2Model ----
(***************************************************************************)
(* Aptuquest quiz application (src/main.py): the Participant table, the    *)
(* server-side sessions and the route handlers, as a state machine.        *)
(*                                                                         *)
(* A handler that only reads the table, or reads and writes it without an  *)
(* intervening read that matters, is one action.  The two handlers that    *)
(* load a row, compute, and commit later (POST /quiz, POST /profile) are    *)
(* two actions each, the load and the commit, because the development      *)
(* server (app.run, threaded) serves requests concurrently and another     *)
(* request can commit in between.                                          *)
(***************************************************************************)
EXTENDS Integers, Sequences, FiniteSets, Bags

VARIABLES
    db,            \* the participant table: email -> row (exists = FALSE: no row)
    session,       \* the server-side sessions: session id -> user_email or NoEmail
    inflight,      \* requests that have loaded their row and not yet committed
    threads,       \* background email sends started and not yet finished
    ever_approved, \* history: emails whose row was ever written 'approved'
    served,        \* history: email -> the list GET /quiz rendered to it last
    last,          \* the request step just taken and the response it produced,
                   \* Nothing once the response has been delivered
    gen,           \* one run of the quiz generation on its own: the bank and the
                   \* number per section it is given, and the list it returned
    inserted       \* history: email -> the INSERTs of a Participant with that
                   \* email that were committed (no row is ever deleted)

vars ==
    <<db, session, inflight, threads, ever_approved, served, last, gen, inserted>>

(***************************************************************************)
(* Bounds of the model.                                                    *)
(***************************************************************************)
\* how many requests may be between their load and their commit at once
MaxInFlight == 2
\* how many background email sends may be running at once
MaxThreads == 2
\* questions drawn per category (10 in the source, over a bank of 10 per
\* category; the model's bank is scaled down with it)
questions_per_section == 1
\* ids an admin may name in /admin/approve/<pid>, /admin/reject/<pid>
MaxPid == 3
\* the generation on its own: questions per category of the largest bank it
\* is given, and the largest number per section it is asked for
MaxBank == 3
MaxDraw == 2

(***************************************************************************)
(* Identities.                                                             *)
(***************************************************************************)
AdminEmail == "thoughtz175@gmail.com"
admin_emails == {AdminEmail}
UserEmails == {"u1@x"}
Emails == UserEmails \cup admin_emails
NoEmail == "-"
Sessions == {"s1"}

\* the primary key of the row of each email (ids are opaque row names)
PidOf(e) == IF e = "u1@x" THEN 1 ELSE 2
Pids == 1..MaxPid

(***************************************************************************)
(* The question bank and the quiz generation (quiz, lines 330-424).        *)
(***************************************************************************)
Categories == <<"Math", "Reasoning", "Verbal">>

questions_by_category ==
    [c \in {"Math", "Reasoning", "Verbal"} |->
        CASE c = "Math" ->
               << [id |-> 1, options |-> <<"1/15", "3/10">>, answer |-> "1/15"] >>
          [] c = "Reasoning" ->
               << [id |-> 11, options |-> <<"Daughter">>, answer |-> "Daughter"] >>
          [] OTHER ->
               << [id |-> 21, options |-> <<"Difficulty">>, answer |-> "Difficulty"] >>]

Min(a, b) == IF a < b THEN a ELSE b

\* the injections 1..k -> 1..n: the index choices of a draw without replacement
Injections(k, n) ==
    {f \in [1..k -> 1..n] : \A i, j \in 1..k : i # j => f[i] # f[j]}

\* a draw of k elements with replacement (random.choices)
random_choices(qlist, k) ==
    {[i \in 1..k |-> qlist[f[i]]] : f \in [1..k -> 1..Len(qlist)]}

\* random.sample(qlist, k): every k-long list of distinct elements of qlist
random_sample(qlist, k) ==
    {[i \in 1..k |-> qlist[f[i]]] : f \in Injections(k, Len(qlist))}

\* random.shuffle(options): every reordering of the list
random_shuffle(options) ==
    {[i \in 1..Len(options) |-> options[p[i]]] :
        p \in Injections(Len(options), Len(options))}

\* lines 421-423: each selected question gets its category and shuffled options
RECURSIVE TagAndShuffle(_, _)
TagAndShuffle(selected, category) ==
    IF selected = <<>> THEN {<<>>}
    ELSE {<<[id |-> Head(selected).id, options |-> o,
             answer |-> Head(selected).answer, category |-> category]>> \o rest :
            o \in random_shuffle(Head(selected).options),
            rest \in TagAndShuffle(Tail(selected), category)}

\* a draw that takes one question fewer than the section holds
SelectFromFewer(bank, category, n) ==
    UNION {TagAndShuffle(sel, category) :
            sel \in random_sample(bank[category],
                                  Min(n, Len(bank[category])) - 1)}

\* lines 419-424 for one category of a bank, n questions asked per section
SelectFrom(bank, category, n) ==
    UNION {TagAndShuffle(sel, category) :
            sel \in random_sample(bank[category], Min(n, Len(bank[category])))}

\* lines 419-424 for one category
SelectCategory(category) ==
    SelectFrom(questions_by_category, category, questions_per_section)

\* lines 416-424 over any bank: quiz_questions from the i-th category on
RECURSIVE GenerateOf(_, _, _)
GenerateOf(bank, n, i) ==
    IF i > Len(Categories) THEN {<<>>}
    ELSE {h \o t : h \in SelectFrom(bank, Categories[i], n),
                   t \in GenerateOf(bank, n, i + 1)}

\* lines 416-424: the lists quiz_questions can be, categories in dict order
RECURSIVE GenerateFrom(_)
GenerateFrom(i) ==
    IF i > Len(Categories) THEN {<<>>}
    ELSE {h \o t : h \in SelectCategory(Categories[i]), t \in GenerateFrom(i + 1)}

QuizLists == GenerateFrom(1)

(***************************************************************************)
(* Scoring (quiz, lines 431-448).                                          *)
(***************************************************************************)
\* str(q['id']): the decimal text of a question id
StrOf(id) ==
    CASE id = 1 -> "1" [] id = 11 -> "11" [] id = 21 -> "21" [] OTHER -> "?"

\* the form field of a question: f"q{q['id']}"
FieldOf(id) == "q" \o StrOf(id)

\* request.form.getlist for the submitted forms the model enumerates:
\* form field name -> the selected options, in order
AnswerForms ==
    { [k \in {"q1", "q11", "q21"} |-> <<>>],
      [k \in {"q1", "q11", "q21"} |->
          CASE k = "q1" -> <<"1/15">> [] k = "q11" -> <<"Wife">> [] OTHER -> <<>>],
      [k \in {"q1", "q11", "q21"} |->
          CASE k = "q1" -> <<"3/10", "1/15">> [] k = "q11" -> <<"Daughter">>
            [] OTHER -> <<"Difficulty">>] }

\* lines 441-448: does the answer count (no bank question is 'multiple')
IsCorrect(q, ans) == ans # <<>> /\ ans[1] = q.answer

\* lines 435-437: user_answers, str(id) -> selected options
UserAnswers(quiz_questions, form) ==
    [k \in {StrOf(quiz_questions[i].id) : i \in 1..Len(quiz_questions)} |->
        form["q" \o k]]

\* lines 432-448: total_score over the list
RECURSIVE TotalScore(_, _)
TotalScore(quiz_questions, form) ==
    IF quiz_questions = <<>> THEN 0
    ELSE (IF IsCorrect(Head(quiz_questions), form[FieldOf(Head(quiz_questions).id)])
          THEN 1 ELSE 0)
         + TotalScore(Tail(quiz_questions), form)

\* lines 433-448: category_scores, starting from zero in each fixed category
RECURSIVE CategoryScores(_, _)
CategoryScores(quiz_questions, form) ==
    IF quiz_questions = <<>>
    THEN [c \in {"Math", "Reasoning", "Verbal"} |-> 0]
    ELSE LET q == Head(quiz_questions)
             rest == CategoryScores(Tail(quiz_questions), form)
         IN IF IsCorrect(q, form[FieldOf(q.id)])
            THEN [rest EXCEPT ![q.category] = @ + 1]
            ELSE rest

(***************************************************************************)
(* The Participant table (lines 60-77).  The nullable JSON columns hold    *)
(* <<>> for NULL and <<v>> for the value v.  The profile columns (urn,     *)
(* crn, branch, year, name, picture) are written once at insert and read   *)
(* by no guard; the model keeps the lifecycle and result columns.          *)
(***************************************************************************)
NoRow ==
    [exists |-> FALSE, approval_status |-> "pending", quiz_submitted |-> FALSE,
     score |-> 0, answers |-> <<>>, questions |-> <<>>, category_scores |-> <<>>]

\* a Participant created already approved
NewParticipantApproved == [NoRow EXCEPT !.exists = TRUE, !.approval_status = "approved"]

\* lines 246-256 with the column defaults of lines 70-75
NewParticipant == [NoRow EXCEPT !.exists = TRUE, !.approval_status = "pending"]

Columns ==
    {"exists", "approval_status", "quiz_submitted", "score", "answers",
     "questions", "category_scores"}

\* db.session.commit() of a loaded object: the UPDATE sets the attributes whose
\* value differs from the value loaded, and leaves the other columns of the row
\* as they are in the table now
Flush(row, loaded, object) ==
    [c \in Columns |-> IF object[c] = loaded[c] THEN row[c] ELSE object[c]]

\* Participant.query.get(pid)
RowOfPid(pid) == {e \in Emails : PidOf(e) = pid /\ db[e].exists}

(***************************************************************************)
(* Guards (lines 97-145).                                                  *)
(***************************************************************************)
is_authenticated(s) == session[s] # NoEmail

is_admin(s) == session[s] \in admin_emails

\* lines 129-133: the row of the session's email, NoRow when there is none
get_participant(s) == IF ~is_authenticated(s) THEN NoRow ELSE db[session[s]]

\* before_request: a mobile user agent on /quiz, /instructions or /profile
restricted_routes == {"/quiz", "/instructions", "/profile"}
restrict_mobile_devices(path, mobile) == mobile /\ path \in restricted_routes

(***************************************************************************)
(* The record of the last request step.                                    *)
(***************************************************************************)
NoForm == [urn |-> <<>>, crn |-> <<>>, branch |-> "", year |-> ""]

Nothing ==
    [op |-> "none", email |-> NoEmail, mobile |-> FALSE, pid |-> 0,
     form |-> NoForm, input |-> "", resp |-> "", flash |-> "", shown |-> <<>>,
     selected |-> <<>>, time_up |-> FALSE, mail |-> "", report |-> <<>>]

Answered(op, s, mobile, resp, flash) ==
    [Nothing EXCEPT !.op = op, !.email = session[s], !.mobile = mobile,
                    !.resp = resp, !.flash = flash]

\* require_auth sending the refused request to the profile form
require_auth_wrong_target(s) == IF is_authenticated(s) THEN "" ELSE "redirect_profile"

\* require_admin without the check of lines 122-124
require_admin_auth_only(s) == IF ~is_authenticated(s) THEN "redirect_index" ELSE ""

\* require_auth / require_admin, lines 106-127: the redirect of a refused
\* request, "" when the view runs
require_auth(s) == IF is_authenticated(s) THEN "" ELSE "redirect_index"

require_admin(s) ==
    IF ~is_authenticated(s) THEN "redirect_index"
    ELSE IF ~is_admin(s) THEN "redirect_index"
    ELSE ""

\* the server is between requests: the last response has been delivered
Idle == last = Nothing

Init ==
    /\ db = [e \in Emails |-> NoRow]
    /\ session = [s \in Sessions |-> NoEmail]
    /\ inflight = EmptyBag
    /\ threads = EmptyBag
    /\ ever_approved = {}
    /\ served = [e \in Emails |-> <<>>]
    /\ last = Nothing
    /\ gen = [bank |-> questions_by_category, n |-> questions_per_section,
              out |-> <<>>, done |-> FALSE]
    /\ inserted = [e \in Emails |-> 0]

(***************************************************************************)
(* Login and logout (lines 154-206).                                       *)
(***************************************************************************)
\* where a successful login sends the user (lines 173-187)
LoginRedirect(e) ==
    IF e \in admin_emails THEN "redirect_leaderboard"
    ELSE IF db[e].exists /\ db[e].quiz_submitted THEN "redirect_thank_you"
    ELSE "redirect_profile"

\* the provider's answers that leave the session as it is: not authorized yet,
\* a user-info response that is not OK, an exception before the session write
LoginFailures == {"unauthorized", "not_ok", "exception"}

\* a login whose failures drop the identity the session held
google_login_clearing(s) ==
    /\ Idle
    /\ \/ \E outcome \in LoginFailures :
            /\ last' = [Answered("google_login", s, FALSE,
                                 IF outcome = "unauthorized" THEN "redirect_google"
                                 ELSE "redirect_index",
                                 IF outcome = "unauthorized" THEN "" ELSE "login_failed")
                          EXCEPT !.input = outcome]
            /\ session' = [session EXCEPT ![s] = NoEmail]
       \/ \E e \in Emails :
            /\ session' = [session EXCEPT ![s] = e]
            /\ last' = [Answered("google_login", s, FALSE, LoginRedirect(e), "welcome")
                          EXCEPT !.input = "ok", !.email = e]
    /\ UNCHANGED <<db, inflight, threads, ever_approved, served, gen, inserted>>

\* lines 154-193
google_login(s) ==
    /\ Idle
    /\ \/ \E outcome \in LoginFailures :
            /\ last' = [Answered("google_login", s, FALSE,
                                 IF outcome = "unauthorized" THEN "redirect_google"
                                 ELSE "redirect_index",
                                 IF outcome = "unauthorized" THEN "" ELSE "login_failed")
                          EXCEPT !.input = outcome]
            /\ session' = session
       \/ \E e \in Emails :
            /\ session' = [session EXCEPT ![s] = e]
            /\ last' = [Answered("google_login", s, FALSE, LoginRedirect(e), "welcome")
                          EXCEPT !.input = "ok", !.email = e]
    /\ UNCHANGED <<db, inflight, threads, ever_approved, served, gen, inserted>>

\* a logout that answers as usual and leaves the session as it is
logout_keeping_session(s) ==
    /\ Idle
    /\ session' = session
    /\ last' = [Answered("logout", s, FALSE, "redirect_index", "logged_out")
                  EXCEPT !.email = NoEmail]
    /\ UNCHANGED <<db, inflight, threads, ever_approved, served, gen, inserted>>

\* lines 195-206: session.clear()
logout(s) ==
    /\ Idle
    /\ session' = [session EXCEPT ![s] = NoEmail]
    /\ last' = [Answered("logout", s, FALSE, "redirect_index", "logged_out")
                  EXCEPT !.email = NoEmail]
    /\ UNCHANGED <<db, inflight, threads, ever_approved, served, gen, inserted>>

(***************************************************************************)
(* /profile (lines 208-275).                                               *)
(***************************************************************************)
\* str.strip(): the text without its leading and trailing blanks
RECURSIVE LStrip(_)
LStrip(t) == IF t # <<>> /\ Head(t) = " " THEN LStrip(Tail(t)) ELSE t

RECURSIVE RStrip(_)
RStrip(t) ==
    IF t # <<>> /\ t[Len(t)] = " " THEN RStrip(SubSeq(t, 1, Len(t) - 1)) ELSE t

Strip(t) == RStrip(LStrip(t))

\* the texts int() accepts, among the year fields the model submits
IsInteger(year) == year \in {"1", "2"}

\* the submitted forms the model enumerates: urn and crn as lists of characters,
\* branch and year as the field's text ("" when the field is missing or empty)
ProfileForms ==
    { [urn |-> <<"U", "1">>, crn |-> <<>>, branch |-> "CSE", year |-> "2"],
      [urn |-> <<" ">>, crn |-> <<" ", "C", "1", " ">>, branch |-> "CSE", year |-> "1"],
      [urn |-> <<"U", "1">>, crn |-> <<>>, branch |-> "", year |-> "2"],
      [urn |-> <<"U", "1">>, crn |-> <<>>, branch |-> "CSE", year |-> ""],
      [urn |-> <<" ">>, crn |-> <<" ", " ">>, branch |-> "CSE", year |-> "2"],
      [urn |-> <<>>, crn |-> <<>>, branch |-> "CSE", year |-> "2"],
      [urn |-> <<"U", "1">>, crn |-> <<>>, branch |-> "CSE", year |-> "x"] }

\* ProfileValidation without the strip() of lines 223-224
ProfileValidationNoStrip(form) ==
    IF form.branch = "" THEN "select_branch"
    ELSE IF form.year = "" THEN "select_year"
    ELSE IF form.urn = <<>> /\ form.crn = <<>> THEN "enter_urn_or_crn"
    ELSE ""

\* lines 229-240: the validation message of a form, "" when it passes
ProfileValidation(form) ==
    IF form.branch = "" THEN "select_branch"
    ELSE IF form.year = "" THEN "select_year"
    ELSE IF Strip(form.urn) = <<>> /\ Strip(form.crn) = <<>> THEN "enter_urn_or_crn"
    ELSE ""

\* lines 209-220: the redirect that ends a /profile request before the form
profile_gate(s, mobile) ==
    IF restrict_mobile_devices("/profile", mobile) THEN "redirect_device_restricted"
    ELSE IF require_auth(s) # "" THEN require_auth(s)
    ELSE IF db[session[s]].exists THEN "redirect_instructions"
    ELSE ""

profile_form_get(s) ==
    /\ Idle
    /\ \E mobile \in BOOLEAN :
         last' = IF profile_gate(s, mobile) # ""
                 THEN Answered("profile_get", s, mobile, profile_gate(s, mobile),
                               IF profile_gate(s, mobile) = "redirect_index"
                               THEN "please_login"
                               ELSE IF profile_gate(s, mobile) = "redirect_instructions"
                               THEN "profile_exists" ELSE "")
                 ELSE Answered("profile_get", s, mobile, "render_profile", "")
    /\ UNCHANGED <<db, session, inflight, threads, ever_approved, served, gen, inserted>>

\* POST /profile up to the point where the Participant object is built
\* (lines 217-256); a form that passes leaves the request holding the object
profile_form_post(s) ==
    /\ Idle
    /\ \E mobile \in BOOLEAN, form \in ProfileForms :
         LET gate == profile_gate(s, mobile)
             invalid == ProfileValidation(form)
             sent(resp, flash) ==
                 [Answered("profile_post", s, mobile, resp, flash) EXCEPT !.form = form]
         IN IF gate # ""
            THEN /\ last' = sent(gate, IF gate = "redirect_index" THEN "please_login"
                                       ELSE IF gate = "redirect_instructions"
                                       THEN "profile_exists" ELSE "")
                 /\ inflight' = inflight
            ELSE IF invalid # ""
            THEN /\ last' = sent("render_profile", invalid)
                 /\ inflight' = inflight
            ELSE IF ~IsInteger(form.year)
            THEN \* int(year) raises: the except clause of lines 272-275
                 /\ last' = sent("render_profile", "error")
                 /\ inflight' = inflight
            ELSE /\ BagCardinality(inflight) < MaxInFlight
                 /\ inflight' = inflight (+) SetToBag({[op |-> "profile_post",
                                                       email |-> session[s],
                                                       loaded |-> NoRow]})
                 /\ last' = sent("loaded", "")
    /\ UNCHANGED <<db, session, threads, ever_approved, served, gen, inserted>>

\* the insert and its commit on a table whose email column is not unique:
\* a second row is added next to the first, which lookups keep returning
profile_form_commit_not_unique(r) ==
    /\ Idle
    /\ r.op = "profile_post"
    /\ inflight' = inflight (-) SetToBag({r})
    /\ db' = [db EXCEPT ![r.email] = IF @.exists THEN @ ELSE NewParticipant]
    /\ inserted' = [inserted EXCEPT ![r.email] = @ + 1]
    /\ last' = [Nothing EXCEPT !.op = "profile_commit", !.email = r.email,
                               !.resp = IF r.email \in admin_emails
                                        THEN "redirect_leaderboard"
                                        ELSE "redirect_pending",
                               !.flash = IF r.email \in admin_emails
                                         THEN "" ELSE "profile_submitted"]
    /\ UNCHANGED <<session, threads, ever_approved, served, gen>>

\* lines 258-268: the insert and its commit.  email is unique (line 64): the
\* insert of a second row for the email raises, and the except clause of lines
\* 272-275 re-renders the form
profile_form_commit(r) ==
    /\ Idle
    /\ r.op = "profile_post"
    /\ inflight' = inflight (-) SetToBag({r})
    /\ IF db[r.email].exists
       THEN /\ db' = db
            /\ inserted' = inserted
            /\ last' = [Nothing EXCEPT !.op = "profile_commit", !.email = r.email,
                                       !.resp = "render_profile", !.flash = "error"]
       ELSE /\ db' = [db EXCEPT ![r.email] = NewParticipant]
            /\ inserted' = [inserted EXCEPT ![r.email] = @ + 1]
            /\ last' = [Nothing EXCEPT !.op = "profile_commit", !.email = r.email,
                                       !.resp = IF r.email \in admin_emails
                                                THEN "redirect_leaderboard"
                                                ELSE "redirect_pending",
                                       !.flash = IF r.email \in admin_emails
                                                 THEN "" ELSE "profile_submitted"]
    /\ UNCHANGED <<session, threads, ever_approved, served, gen>>

(***************************************************************************)
(* /instructions (lines 277-304).                                          *)
(***************************************************************************)
\* the flash message that goes with a redirect of the participant routes
GateFlash(gate) ==
    CASE gate = "redirect_index" -> "please_login"
      [] gate = "redirect_profile" -> "complete_profile_first"
      [] gate = "redirect_pending" -> "pending_approval"
      [] gate = "redirect_thank_you" -> "already_completed"
      [] OTHER -> ""

\* instructions_gate without the check of lines 291-293
instructions_gate_unapproved(s, mobile) ==
    IF restrict_mobile_devices("/instructions", mobile) THEN "redirect_device_restricted"
    ELSE IF require_auth(s) # "" THEN require_auth(s)
    ELSE IF is_admin(s) THEN "redirect_leaderboard"
    ELSE IF ~get_participant(s).exists THEN "redirect_profile"
    ELSE IF get_participant(s).quiz_submitted THEN "redirect_thank_you"
    ELSE ""

\* lines 278-297: the redirect that ends the request, "" when the page renders
instructions_gate(s, mobile) ==
    IF restrict_mobile_devices("/instructions", mobile) THEN "redirect_device_restricted"
    ELSE IF require_auth(s) # "" THEN require_auth(s)
    ELSE IF is_admin(s) THEN "redirect_leaderboard"
    ELSE IF ~get_participant(s).exists THEN "redirect_profile"
    ELSE IF get_participant(s).approval_status # "approved" THEN "redirect_pending"
    ELSE IF get_participant(s).quiz_submitted THEN "redirect_thank_you"
    ELSE ""

instructions(s) ==
    /\ Idle
    /\ \E mobile \in BOOLEAN :
         LET gate == instructions_gate(s, mobile)
         IN last' = IF gate # ""
                    THEN Answered("instructions", s, mobile, gate, GateFlash(gate))
                    ELSE Answered("instructions", s, mobile, "render_instructions", "")
    /\ UNCHANGED <<db, session, inflight, threads, ever_approved, served, gen, inserted>>

(***************************************************************************)
(* /quiz (lines 306-482).                                                  *)
(***************************************************************************)
\* quiz_gate without the check of lines 325-327
quiz_gate_resubmit(s, mobile) ==
    IF restrict_mobile_devices("/quiz", mobile) THEN "redirect_device_restricted"
    ELSE IF require_auth(s) # "" THEN require_auth(s)
    ELSE IF is_admin(s) THEN "redirect_leaderboard"
    ELSE IF ~get_participant(s).exists THEN "redirect_profile"
    ELSE IF get_participant(s).approval_status # "approved" THEN "redirect_pending"
    ELSE ""

\* lines 307-327: the redirect that ends the request, "" when the quiz goes on
quiz_gate(s, mobile) ==
    IF restrict_mobile_devices("/quiz", mobile) THEN "redirect_device_restricted"
    ELSE IF require_auth(s) # "" THEN require_auth(s)
    ELSE IF is_admin(s) THEN "redirect_leaderboard"
    ELSE IF ~get_participant(s).exists THEN "redirect_profile"
    ELSE IF get_participant(s).approval_status # "approved" THEN "redirect_pending"
    ELSE IF get_participant(s).quiz_submitted THEN "redirect_thank_you"
    ELSE ""

\* GET /quiz: the generated list is rendered (line 477)
quiz_get(s) ==
    /\ Idle
    /\ \E mobile \in BOOLEAN :
         LET gate == quiz_gate(s, mobile)
         IN IF gate # ""
            THEN /\ last' = Answered("quiz_get", s, mobile, gate, GateFlash(gate))
                 /\ served' = served
            ELSE \E quiz_questions \in QuizLists :
                   /\ last' = [Answered("quiz_get", s, mobile, "render_quiz", "")
                                 EXCEPT !.shown = <<quiz_questions>>]
                   /\ served' = [served EXCEPT ![session[s]] = <<quiz_questions>>]
    /\ UNCHANGED <<db, session, inflight, threads, ever_approved, gen, inserted>>

\* POST /quiz up to the checks of lines 316-327: the request holds the row it
\* loaded
quiz_post(s) ==
    /\ Idle
    /\ \E mobile \in BOOLEAN :
         LET gate == quiz_gate(s, mobile)
         IN IF gate # ""
            THEN /\ last' = Answered("quiz_post", s, mobile, gate, GateFlash(gate))
                 /\ inflight' = inflight
            ELSE /\ BagCardinality(inflight) < MaxInFlight
                 /\ inflight' = inflight (+) SetToBag({[op |-> "quiz_post",
                                                       email |-> session[s],
                                                       loaded |-> get_participant(s)]})
                 /\ last' = Answered("quiz_post", s, mobile, "loaded", "")
    /\ UNCHANGED <<db, session, threads, ever_approved, served, gen, inserted>>

\* submit_reason / time_up of the form (lines 461-473) and the message flashed
SubmitReasons == {"manual", "time_up", "beforeunload", "violation"}

ReasonFlash(reason, time_up) ==
    CASE reason = "time_up" \/ time_up -> "time_over"
      [] reason = "beforeunload" -> "auto_submitted_navigation"
      [] reason = "violation" -> "auto_submitted_violation"
      [] OTHER -> "quiz_completed"

\* the results assigned without marking the row submitted
ScoredUnmarked(loaded, quiz_questions, form) ==
    [loaded EXCEPT !.answers = <<UserAnswers(quiz_questions, form)>>,
                   !.questions = <<quiz_questions>>,
                   !.score = TotalScore(quiz_questions, form),
                   !.category_scores = <<CategoryScores(quiz_questions, form)>>]

\* lines 451-455: the loaded object with the results assigned
Scored(loaded, quiz_questions, form) ==
    [loaded EXCEPT !.answers = <<UserAnswers(quiz_questions, form)>>,
                   !.questions = <<quiz_questions>>,
                   !.score = TotalScore(quiz_questions, form),
                   !.category_scores = <<CategoryScores(quiz_questions, form)>>,
                   !.quiz_submitted = TRUE]

\* a POST whose declared reason 'violation' costs the participant the score
quiz_commit_penalised(r) ==
    /\ Idle
    /\ r.op = "quiz_post"
    /\ inflight' = inflight (-) SetToBag({r})
    /\ \E quiz_questions \in QuizLists, form \in AnswerForms,
          reason \in SubmitReasons, time_up \in BOOLEAN :
         /\ db' = [db EXCEPT ![r.email] =
                       Flush(db[r.email], r.loaded,
                             IF reason = "violation"
                             THEN [Scored(r.loaded, quiz_questions, form)
                                     EXCEPT !.score = 0]
                             ELSE Scored(r.loaded, quiz_questions, form))]
         /\ last' = [Nothing EXCEPT !.op = "quiz_commit", !.email = r.email,
                                    !.selected = form, !.input = reason,
                                    !.time_up = time_up,
                                    !.resp = "redirect_thank_you",
                                    !.flash = ReasonFlash(reason, time_up)]
    /\ UNCHANGED <<session, threads, ever_approved, served, gen, inserted>>

\* lines 415-475 of a POST that passed the checks: the list is generated
\* again, the form is scored against it, and the results are committed; the
\* declared reason is read after the commit and picks the message
quiz_commit(r) ==
    /\ Idle
    /\ r.op = "quiz_post"
    /\ inflight' = inflight (-) SetToBag({r})
    /\ \E quiz_questions \in QuizLists, form \in AnswerForms,
          reason \in SubmitReasons, time_up \in BOOLEAN :
         /\ db' = [db EXCEPT ![r.email] =
                       Flush(db[r.email], r.loaded, Scored(r.loaded, quiz_questions, form))]
         /\ last' = [Nothing EXCEPT !.op = "quiz_commit", !.email = r.email,
                                    !.selected = form, !.input = reason,
                                    !.time_up = time_up,
                                    !.resp = "redirect_thank_you",
                                    !.flash = ReasonFlash(reason, time_up)]
    /\ UNCHANGED <<session, threads, ever_approved, served, gen, inserted>>

(***************************************************************************)
(* /thank_you (lines 484-508) and /pending (lines 555-560).                *)
(***************************************************************************)
\* thank_you without the check of lines 494-496
thank_you_gate_any_row(s) ==
    IF require_auth(s) # "" THEN require_auth(s)
    ELSE IF is_admin(s) THEN "redirect_leaderboard"
    ELSE IF ~get_participant(s).quiz_submitted THEN "redirect_instructions"
    ELSE ""

thank_you_gate(s) ==
    IF require_auth(s) # "" THEN require_auth(s)
    ELSE IF is_admin(s) THEN "redirect_leaderboard"
    ELSE IF ~get_participant(s).exists THEN "redirect_profile"
    ELSE IF ~get_participant(s).quiz_submitted THEN "redirect_instructions"
    ELSE ""

thank_you(s) ==
    /\ Idle
    /\ LET gate == thank_you_gate(s)
       IN last' = IF gate # ""
                  THEN Answered("thank_you", s, FALSE, gate,
                                IF gate = "redirect_instructions"
                                THEN "complete_quiz_first" ELSE GateFlash(gate))
                  ELSE [Answered("thank_you", s, FALSE, "render_thank_you", "")
                          EXCEPT !.shown = <<get_participant(s).score>>]
    /\ UNCHANGED <<db, session, inflight, threads, ever_approved, served, gen, inserted>>

pending_page(s) ==
    /\ Idle
    /\ last' = IF require_auth(s) # ""
               THEN Answered("pending", s, FALSE, require_auth(s), "please_login")
               ELSE Answered("pending", s, FALSE, "render_pending", "")
    /\ UNCHANGED <<db, session, inflight, threads, ever_approved, served, gen, inserted>>

(***************************************************************************)
(* The admin routes (lines 510-546, 562-605).                              *)
(***************************************************************************)
leaderboard(s) ==
    /\ Idle
    /\ last' = IF require_admin(s) # ""
               THEN Answered("leaderboard", s, FALSE, require_admin(s),
                             IF is_authenticated(s) THEN "access_denied" ELSE "please_login")
               ELSE Answered("leaderboard", s, FALSE, "render_leaderboard", "")
    /\ UNCHANGED <<db, session, inflight, threads, ever_approved, served, gen, inserted>>

\* line 528: the submitted rows ordered by score, highest first; rows of equal
\* score come in an order the store chooses
\* filter_by(quiz_submitted=True) over the rows of the table
Submitted == {e \in DOMAIN db : db[e].exists /\ db[e].quiz_submitted}

\* the submitted rows listed in an order that ignores the score
ScoreOrdersUnsorted ==
    {o \in [1..Cardinality(Submitted) -> Submitted] :
        \A i, j \in DOMAIN o : i # j => o[i] # o[j]}

\* order_by(score desc): rows of equal score come in any order
ScoreOrders ==
    {o \in [1..Cardinality(Submitted) -> Submitted] :
        /\ \A i, j \in DOMAIN o : i # j => o[i] # o[j]
        /\ \A i, j \in DOMAIN o : i < j => db[o[i]].score >= db[o[j]].score}

leaderboard_data(s) ==
    /\ Idle
    /\ IF require_admin(s) # ""
       THEN last' = Answered("leaderboard_data", s, FALSE, require_admin(s),
                             IF is_authenticated(s) THEN "access_denied"
                             ELSE "please_login")
       ELSE \E o \in ScoreOrders :
              last' = [Answered("leaderboard_data", s, FALSE, "json_ok", "")
                         EXCEPT !.shown = [i \in DOMAIN o |->
                                              [email |-> o[i], score |-> db[o[i]].score]]]
    /\ UNCHANGED <<db, session, inflight, threads, ever_approved, served, gen, inserted>>

admin_pending(s) ==
    /\ Idle
    /\ last' = IF require_admin(s) # ""
               THEN Answered("admin_pending", s, FALSE, require_admin(s),
                             IF is_authenticated(s) THEN "access_denied" ELSE "please_login")
               ELSE [Answered("admin_pending", s, FALSE, "json_ok", "")
                       EXCEPT !.shown =
                           <<{e \in Emails : db[e].exists
                                             /\ db[e].approval_status = "pending"}>>]
    /\ UNCHANGED <<db, session, inflight, threads, ever_approved, served, gen, inserted>>

admin_approvals(s) ==
    /\ Idle
    /\ last' = IF require_admin(s) # ""
               THEN Answered("admin_approvals", s, FALSE, require_admin(s),
                             IF is_authenticated(s) THEN "access_denied" ELSE "please_login")
               ELSE Answered("admin_approvals", s, FALSE, "render_admin_pending", "")
    /\ UNCHANGED <<db, session, inflight, threads, ever_approved, served, gen, inserted>>

\* the reject endpoint writing the status its name suggests
RejectedStatusRejected == "rejected"

\* the status each mutation endpoint writes (lines 586 and 597)
ApprovedStatus == "approved"
RejectedStatus == "pending"

\* a missing row answered like a found one
NotFoundAsSuccess == [status |-> 200, body |-> [success |-> TRUE]]

\* lines 584-585 and 595-596: the answer when the id names no row
NotFound == [status |-> 404, body |-> [success |-> FALSE, error |-> "Not found"]]

\* approve and reject that also reopen the quiz of the row they touch
SetStatusReopening(op, s, pid, status) ==
    /\ Idle
    /\ IF require_admin(s) # ""
       THEN /\ last' = [Answered(op, s, FALSE, require_admin(s),
                                 IF is_authenticated(s) THEN "access_denied"
                                 ELSE "please_login") EXCEPT !.pid = pid]
            /\ UNCHANGED <<db, ever_approved>>
       ELSE IF RowOfPid(pid) = {}
       THEN /\ last' = [Answered(op, s, FALSE, "json_404", "")
                          EXCEPT !.pid = pid, !.shown = <<NotFound>>]
            /\ UNCHANGED <<db, ever_approved>>
       ELSE \E e \in RowOfPid(pid) :
              /\ db' = [db EXCEPT ![e].approval_status = status,
                                  ![e].quiz_submitted = FALSE]
              /\ ever_approved' = IF status = "approved"
                                  THEN ever_approved \cup {e} ELSE ever_approved
              /\ last' = [Answered(op, s, FALSE, "json_ok", "") EXCEPT !.pid = pid]
    /\ UNCHANGED <<session, inflight, threads, served, gen, inserted>>

\* lines 579-599: approve and reject differ in the status they write
SetStatus(op, s, pid, status) ==
    /\ Idle
    /\ IF require_admin(s) # ""
       THEN /\ last' = [Answered(op, s, FALSE, require_admin(s),
                                 IF is_authenticated(s) THEN "access_denied"
                                 ELSE "please_login") EXCEPT !.pid = pid]
            /\ UNCHANGED <<db, ever_approved>>
       ELSE IF RowOfPid(pid) = {}
       THEN /\ last' = [Answered(op, s, FALSE, "json_404", "")
                          EXCEPT !.pid = pid, !.shown = <<NotFound>>]
            /\ UNCHANGED <<db, ever_approved>>
       ELSE \E e \in RowOfPid(pid) :
              /\ db' = [db EXCEPT ![e].approval_status = status]
              /\ ever_approved' = IF status = "approved"
                                  THEN ever_approved \cup {e} ELSE ever_approved
              /\ last' = [Answered(op, s, FALSE, "json_ok", "") EXCEPT !.pid = pid]
    /\ UNCHANGED <<session, inflight, threads, served, gen, inserted>>

admin_approve(s, pid) == SetStatus("admin_approve", s, pid, ApprovedStatus)

admin_reject(s, pid) == SetStatus("admin_reject", s, pid, RejectedStatus)

(***************************************************************************)
(* The results email (lines 612-729).                                      *)
(***************************************************************************)
\* a send that is not started while the same send is still running
send_quiz_email_once(s) ==
    /\ Idle
    /\ IF require_auth(s) # ""
       THEN /\ last' = Answered("send_quiz_email", s, FALSE, require_auth(s), "please_login")
            /\ threads' = threads
       ELSE IF ~get_participant(s).exists \/ ~get_participant(s).quiz_submitted
       THEN /\ last' = Answered("send_quiz_email", s, FALSE, "redirect_quiz",
                                "complete_quiz_first")
            /\ threads' = threads
       ELSE IF get_participant(s).questions = <<>>
               \/ get_participant(s).questions = << <<>> >>
       THEN /\ last' = Answered("send_quiz_email", s, FALSE, "redirect_thank_you",
                                "no_questions_found")
            /\ threads' = threads
       ELSE /\ BagCardinality(threads) < MaxThreads
            /\ LET t == [email |-> session[s],
                         questions |-> get_participant(s).questions[1],
                         answers |-> get_participant(s).answers[1],
                         score |-> get_participant(s).score]
               IN threads' = IF BagIn(t, threads) THEN threads
                             ELSE threads (+) SetToBag({t})
            /\ last' = Answered("send_quiz_email", s, FALSE, "redirect_thank_you",
                                "results_emailed")
    /\ UNCHANGED <<db, session, inflight, ever_approved, served, gen, inserted>>

\* lines 617-645: the send is started for a submitted participant whose row
\* holds a non-empty question list
send_quiz_email(s) ==
    /\ Idle
    /\ IF require_auth(s) # ""
       THEN /\ last' = Answered("send_quiz_email", s, FALSE, require_auth(s), "please_login")
            /\ threads' = threads
       ELSE IF ~get_participant(s).exists \/ ~get_participant(s).quiz_submitted
       THEN /\ last' = Answered("send_quiz_email", s, FALSE, "redirect_quiz",
                                "complete_quiz_first")
            /\ threads' = threads
       ELSE IF get_participant(s).questions = <<>>
               \/ get_participant(s).questions = << <<>> >>
       THEN /\ last' = Answered("send_quiz_email", s, FALSE, "redirect_thank_you",
                                "no_questions_found")
            /\ threads' = threads
       ELSE /\ BagCardinality(threads) < MaxThreads
            /\ threads' = threads (+) SetToBag({[email |-> session[s],
                                                 questions |-> get_participant(s).questions[1],
                                                 answers |-> get_participant(s).answers[1],
                                                 score |-> get_participant(s).score]})
            /\ last' = Answered("send_quiz_email", s, FALSE, "redirect_thank_you",
                                "results_emailed")
    /\ UNCHANGED <<db, session, inflight, ever_approved, served, gen, inserted>>

\* lines 679 and 686-692: the answer the report shows for a question and the
\* flag it gives it (no bank question is 'multiple')
ReportAnswer(q, answers) ==
    IF StrOf(q.id) \in DOMAIN answers THEN answers[StrOf(q.id)] ELSE <<>>

is_correct(q, user_ans) == user_ans # <<>> /\ user_ans[1] = q.answer

\* lines 672-703: the report built from the values the thread was given: the
\* score line and, per question in list order, the status shown
Report(t) ==
    [score |-> t.score,
     total |-> Len(t.questions),
     status |-> [i \in 1..Len(t.questions) |->
                   is_correct(t.questions[i], ReportAnswer(t.questions[i], t.answers))]]

\* a background send that is started again when mail.send raises
send_email_later_retrying(t) ==
    /\ Idle \/ last.op = "send_quiz_email"
    /\ \E delivered \in BOOLEAN :
         /\ threads' = IF delivered THEN threads (-) SetToBag({t}) ELSE threads
         /\ last' = [last EXCEPT !.op = "send_email_later",
                                 !.report = <<Report(t)>>,
                                 !.mail = IF delivered THEN "sent" ELSE "logged_error"]
    /\ UNCHANGED <<db, session, inflight, ever_approved, served, gen, inserted>>

\* lines 613-615 and 647-729: the background send ends, delivered or failed;
\* a failure is logged and nothing else.  The thread runs beside the request
\* that started it (line 640), so it may end before or after the response
\* of /send_quiz_email goes out; that response is left as it is
send_email_later(t) ==
    /\ Idle \/ last.op = "send_quiz_email"
    /\ threads' = threads (-) SetToBag({t})
    /\ \E delivered \in BOOLEAN :
         last' = [last EXCEPT !.op = "send_email_later",
                              !.report = <<Report(t)>>,
                              !.mail = IF delivered THEN "sent" ELSE "logged_error"]
    /\ UNCHANGED <<db, session, inflight, ever_approved, served, gen, inserted>>

(***************************************************************************)
(* The specification.                                                      *)
(***************************************************************************)
\* the response goes out and the server takes the next request (line 746)
respond ==
    /\ ~Idle
    /\ last' = Nothing
    /\ UNCHANGED <<db, session, inflight, threads, ever_approved, served, gen, inserted>>

Next ==
    \/ respond
    \/ \E s \in Sessions : google_login(s)
    \/ \E s \in Sessions : logout(s)
    \/ \E s \in Sessions : profile_form_get(s)
    \/ \E s \in Sessions : profile_form_post(s)
    \/ \E r \in BagToSet(inflight) : profile_form_commit(r)
    \/ \E s \in Sessions : instructions(s)
    \/ \E s \in Sessions : quiz_get(s)
    \/ \E s \in Sessions : quiz_post(s)
    \/ \E r \in BagToSet(inflight) : quiz_commit(r)
    \/ \E s \in Sessions : thank_you(s)
    \/ \E s \in Sessions : pending_page(s)
    \/ \E s \in Sessions : leaderboard(s)
    \/ \E s \in Sessions : leaderboard_data(s)
    \/ \E s \in Sessions : admin_pending(s)
    \/ \E s \in Sessions : admin_approvals(s)
    \/ \E s \in Sessions, pid \in Pids : admin_approve(s, pid)
    \/ \E s \in Sessions, pid \in Pids : admin_reject(s, pid)
    \/ \E s \in Sessions : send_quiz_email(s)
    \/ \E t \in BagToSet(threads) : send_email_later(t)

Spec == Init /\ [][Next]_vars

(***************************************************************************)
(* The leaderboard query on its own (lines 522-546), over tables holding   *)
(* several participants in the states the handlers leave rows in.          *)
(***************************************************************************)
BoardEmails == {"u1@x", "u2@x", "u3@x"}

\* the rows a participant's email can have: none, a profile pending or
\* approved, or a submission scored from one of the forms, under either status
BoardRows ==
    {NoRow, NewParticipant, [NewParticipant EXCEPT !.approval_status = "approved"]}
    \cup {[Scored(NewParticipant, q, form) EXCEPT !.approval_status = st] :
            q \in QuizLists, form \in AnswerForms, st \in {"pending", "approved"}}

\* an admin is logged in and the table holds any such rows
BoardInit ==
    /\ db \in [BoardEmails -> BoardRows]
    /\ session = [s \in Sessions |-> AdminEmail]
    /\ inflight = EmptyBag
    /\ threads = EmptyBag
    /\ ever_approved = {}
    /\ served = [e \in Emails |-> <<>>]
    /\ last = Nothing
    /\ gen = [bank |-> questions_by_category, n |-> questions_per_section,
              out |-> <<>>, done |-> FALSE]
    /\ inserted = [e \in Emails |-> 0]

BoardNext ==
    \/ respond
    \/ \E s \in Sessions : leaderboard_data(s)

BoardSpec == BoardInit /\ [][BoardNext]_vars

(***************************************************************************)
(* The quiz generation on its own (lines 415-424), over banks shaped like  *)
(* the one of lines 330-413: three categories, ids unique across the bank. *)
(***************************************************************************)
\* the i-th question of a category: ids 1.., 11.., 21.. as in the bank
BankQuestion(category, i) ==
    [id |-> (CASE category = "Math" -> 0 [] category = "Reasoning" -> 10
               [] OTHER -> 20) + i,
     options |-> IF i % 2 = 1 THEN <<"A", "B">> ELSE <<"C">>,
     answer |-> IF i % 2 = 1 THEN "A" ELSE "C"]

\* the banks: any number of questions up to MaxBank in each category
Banks ==
    {[c \in {"Math", "Reasoning", "Verbal"} |->
         [i \in 1..size[c] |-> BankQuestion(c, i)]] :
       size \in [{"Math", "Reasoning", "Verbal"} -> 0..MaxBank]}

GenInit ==
    /\ db = [e \in Emails |-> NoRow]
    /\ session = [s \in Sessions |-> NoEmail]
    /\ inflight = EmptyBag
    /\ threads = EmptyBag
    /\ ever_approved = {}
    /\ served = [e \in Emails |-> <<>>]
    /\ last = Nothing
    /\ inserted = [e \in Emails |-> 0]
    /\ \E bank \in Banks, n \in 1..MaxDraw :
         gen = [bank |-> bank, n |-> n, out |-> <<>>, done |-> FALSE]

\* lines 415-424 run once on the given bank
generate_quiz ==
    /\ ~gen.done
    /\ \E quiz_questions \in GenerateOf(gen.bank, gen.n, 1) :
         gen' = [gen EXCEPT !.out = quiz_questions, !.done = TRUE]
    /\ UNCHANGED <<db, session, inflight, threads, ever_approved, served, last, inserted>>

GenNext == generate_quiz

GenSpec == GenInit /\ [][GenNext]_vars

(***************************************************************************)
(* Properties.                                                             *)
(***************************************************************************)
QuizOps == {"quiz_get", "quiz_post"}

AdminOps ==
    {"leaderboard", "leaderboard_data", "admin_pending", "admin_approve",
     "admin_reject", "admin_approvals"}

AuthOps ==
    {"profile_get", "profile_post", "instructions", "quiz_get", "quiz_post",
     "thank_you", "pending", "send_quiz_email"} \cup AdminOps

\* the result columns of the rows, email -> the four of them
Results ==
    [e \in Emails |-> <<db[e].score, db[e].answers, db[e].questions,
                        db[e].category_scores>>]

\* C1 as stated: a /quiz request by a participant whose submission is committed
\* is redirected to /thank_you, starts no scoring and leaves the results alone.
C1_Original ==
    [][\A e \in Emails :
         (db[e].exists /\ db[e].quiz_submitted
          /\ last'.op \in QuizOps /\ last'.email = e)
         => (/\ last'.resp = "redirect_thank_you"
             /\ inflight' = inflight
             /\ Results' = Results)]_vars

\* C1: a /quiz request by a participant whose submission is committed is
\* answered by a redirect, starts no scoring and leaves the results alone; the
\* redirect goes to /device-restricted for a mobile user agent, else to
\* /pending when the status has been set back to 'pending', else to /thank_you.
C1_Resubmit ==
    [][\A e \in Emails :
         (db[e].exists /\ db[e].quiz_submitted
          /\ last'.op \in QuizOps /\ last'.email = e)
         => (/\ last'.resp = (IF last'.mobile THEN "redirect_device_restricted"
                              ELSE IF db[e].approval_status # "approved"
                              THEN "redirect_pending"
                              ELSE "redirect_thank_you")
             /\ inflight' = inflight
             /\ Results' = Results)]_vars

C1_Witness ==
    /\ last.op = "quiz_post"
    /\ last.email \in Emails
    /\ db[last.email].quiz_submitted
    /\ db[last.email].approval_status = "pending"
    /\ last.resp = "redirect_pending"

\* C2 as stated: at most one request per participant writes the results, that
\* is, no scoring commit lands on a row that is already submitted.
C2_Original ==
    [][last'.op = "quiz_commit" => ~db[last'.email].quiz_submitted]_vars

\* the matching rule of lines 441-448 applied to persisted questions and answers
RECURSIVE MatchCount(_, _)
MatchCount(questions, answers) ==
    IF questions = <<>> THEN 0
    ELSE (IF LET a == answers[StrOf(Head(questions).id)]
             IN a # <<>> /\ a[1] = Head(questions).answer
          THEN 1 ELSE 0)
         + MatchCount(Tail(questions), answers)

SumOfCategories(cs) == cs["Math"] + cs["Reasoning"] + cs["Verbal"]

\* C3 as stated: for every submitted participant the persisted score is the
\* number of persisted questions whose persisted answer matches, and the
\* persisted category scores add up to the persisted score.
C3_Original ==
    \A e \in Emails :
        (db[e].exists /\ db[e].quiz_submitted)
        => /\ db[e].score = MatchCount(db[e].questions[1], db[e].answers[1])
           /\ SumOfCategories(db[e].category_scores[1]) = db[e].score

Redirects ==
    {"redirect_index", "redirect_leaderboard", "redirect_profile",
     "redirect_instructions", "redirect_pending", "redirect_thank_you",
     "redirect_quiz", "redirect_device_restricted", "redirect_google"}

\* C4: the instructions and the quiz are rendered, and a quiz POST goes on to
\* scoring, only for a participant whose row is 'approved' when the request
\* checks it; with no row or a 'pending' row the request is redirected; a
\* participant never approved is never submitted.
C4_ApprovalGate ==
    /\ (last.op \in {"instructions", "quiz_get", "quiz_post"}
        /\ last.resp \in {"render_instructions", "render_quiz", "loaded"})
       => (/\ last.email \in Emails
           /\ db[last.email].exists
           /\ db[last.email].approval_status = "approved")
    /\ (last.op \in {"instructions", "quiz_get", "quiz_post"}
        /\ last.email \in Emails
        /\ (~db[last.email].exists \/ db[last.email].approval_status = "pending"))
       => last.resp \in Redirects
    /\ \A r \in BagToSet(inflight) :
           r.op = "quiz_post" => r.loaded.approval_status = "approved"
    /\ \A e \in Emails : db[e].quiz_submitted => e \in ever_approved

C4_Witness ==
    /\ last.op = "quiz_commit"
    /\ db[last.email].quiz_submitted
    /\ db[last.email].approval_status = "pending"
    /\ last.email \in ever_approved

\* branch unset, or year unset, or URN and CRN both empty once trimmed
C5_Rejected(form) ==
    \/ form.branch = ""
    \/ form.year = ""
    \/ (Strip(form.urn) = <<>> /\ Strip(form.crn) = <<>>)

\* C5 as stated: such a POST /profile gets the form again and creates no row.
C5_Original ==
    [][(last'.op = "profile_post" /\ C5_Rejected(last'.form))
       => (/\ last'.resp = "render_profile"
           /\ inflight' = inflight
           /\ db' = db)]_vars

\* C5: such a POST /profile creates no row and goes on to no insert; it gets
\* the form again when it comes from a logged-in session with no row on a
\* non-mobile user agent, and the guard's redirect otherwise.
C5_Validation ==
    [][(last'.op = "profile_post" /\ C5_Rejected(last'.form))
       => (/\ last'.resp = (IF last'.mobile THEN "redirect_device_restricted"
                            ELSE IF last'.email = NoEmail THEN "redirect_index"
                            ELSE IF db[last'.email].exists THEN "redirect_instructions"
                            ELSE "render_profile")
           /\ inflight' = inflight
           /\ db' = db)]_vars

C5_Witness ==
    /\ last.op = "profile_post"
    /\ last.form.urn # <<>>
    /\ Strip(last.form.urn) = <<>> /\ Strip(last.form.crn) = <<>>
    /\ last.resp = "render_profile"
    /\ last.flash = "enter_urn_or_crn"

\* C6: a request to an admin route from a session whose email is not an admin
\* email (or that has none) is redirected to the home page; no content is
\* returned and no row changes.
C6_AdminOnly ==
    [][(last'.op \in AdminOps /\ last'.email \notin admin_emails)
       => (/\ last'.resp = "redirect_index"
           /\ last'.shown = <<>>
           /\ db' = db)]_vars

C6_Witness ==
    /\ last.op = "admin_approve"
    /\ last.email \in UserEmails
    /\ RowOfPid(last.pid) # {}
    /\ \E e \in RowOfPid(last.pid) : db[e].approval_status = "pending"
    /\ last.resp = "redirect_index"

\* C7 as stated: a request to an authenticated route from a session with no
\* user_email is redirected to the home page and changes no row.
C7_Original ==
    [][(last'.op \in AuthOps /\ last'.email = NoEmail)
       => (/\ last'.resp = "redirect_index"
           /\ inflight' = inflight
           /\ db' = db)]_vars

\* C7: a request to an authenticated route from a session with no user_email
\* is redirected and changes no row: to /device-restricted when a mobile user
\* agent asks for /profile, /instructions or /quiz, to the home page otherwise.
C7_AuthOnly ==
    [][(last'.op \in AuthOps /\ last'.email = NoEmail)
       => (/\ last'.resp = (IF last'.mobile THEN "redirect_device_restricted"
                            ELSE "redirect_index")
           /\ inflight' = inflight
           /\ threads' = threads
           /\ db' = db)]_vars

C7_Witness ==
    /\ last.op = "send_quiz_email"
    /\ last.email = NoEmail
    /\ last.resp = "redirect_index"
    /\ \E e \in Emails : db[e].quiz_submitted

\* the lifecycle state of an email: 0 no profile, 1 pending approval,
\* 2 approved and not submitted, 3 submitted
Stage(e) ==
    IF ~db[e].exists THEN 0
    ELSE IF db[e].quiz_submitted THEN 3
    ELSE IF db[e].approval_status = "approved" THEN 2
    ELSE 1

\* C8 as stated: the lifecycle state only moves forward, one state at a time.
C8_Original ==
    [][\A e \in Emails :
         Stage(e)' # Stage(e) => Stage(e)' = Stage(e) + 1]_vars

\* C8: the lifecycle state changes only by a profile insert (0 to 1), an admin
\* approval (1 to 2), an admin rejection (2 back to 1) and a quiz commit (to 3,
\* from 2 or, when the row was set back to pending after the request loaded
\* it, from 1); a row is never removed and a submitted row stays submitted.
C8_Lifecycle ==
    [][\A e \in Emails :
         Stage(e)' # Stage(e)
         => \/ Stage(e) = 0 /\ Stage(e)' = 1 /\ last'.op = "profile_commit"
            \/ Stage(e) = 1 /\ Stage(e)' = 2 /\ last'.op = "admin_approve"
            \/ Stage(e) = 2 /\ Stage(e)' = 1 /\ last'.op = "admin_reject"
            \/ Stage(e) \in {1, 2} /\ Stage(e)' = 3 /\ last'.op = "quiz_commit"]_vars

C8_Witness ==
    /\ last.op = "admin_reject"
    /\ last.resp = "json_ok"
    /\ \E e \in RowOfPid(last.pid) : Stage(e) = 1 /\ e \in ever_approved

C10_Original ==
    [][(last'.op = "quiz_commit" /\ served[last'.email] # <<>>)
       => db'[last'.email].questions = served[last'.email]]_vars

\* how often x occurs in a list
Occurrences(list, x) == Cardinality({i \in 1..Len(list) : list[i] = x})

\* the position of a category in the fixed order Math, Reasoning, Verbal
CategoryRank(c) == CHOOSE i \in 1..Len(Categories) : Categories[i] = c

\* C11: whatever the draws, the generated list has exactly min(N, bank size)
\* questions of each category, no question id twice, every question is a
\* bank question of its category with its options permuted, and the
\* categories are contiguous blocks in the order Math, Reasoning, Verbal.
C11_Generation ==
    gen.done =>
      LET out == gen.out IN
      /\ \A c \in DOMAIN gen.bank :
            Cardinality({i \in 1..Len(out) : out[i].category = c})
              = Min(gen.n, Len(gen.bank[c]))
      /\ \A i, j \in 1..Len(out) : i # j => out[i].id # out[j].id
      /\ \A i \in 1..Len(out) :
            \E k \in 1..Len(gen.bank[out[i].category]) :
               LET q == gen.bank[out[i].category][k] IN
               /\ q.id = out[i].id
               /\ q.answer = out[i].answer
               /\ Len(q.options) = Len(out[i].options)
               /\ \A x \in {q.options[m] : m \in 1..Len(q.options)} :
                     Occurrences(out[i].options, x) = Occurrences(q.options, x)
      /\ \A i, j \in 1..Len(out) :
            i < j => CategoryRank(out[i].category) <= CategoryRank(out[j].category)

\* a draw of 2 out of 3 that is not in bank order, with shuffled options, next
\* to a category whose bank is smaller than the number asked for
C11_Witness ==
    /\ gen.done
    /\ gen.n = 2
    /\ Len(gen.bank["Math"]) = 3
    /\ Len(gen.bank["Reasoning"]) = 1
    /\ Len(gen.bank["Verbal"]) = 2
    /\ Len(gen.out) = 5
    /\ gen.out[1].id = 3 /\ gen.out[1].options = <<"B", "A">>
    /\ gen.out[2].id = 1
    /\ gen.out[3].id = 11

ParticipantOps ==
    {"profile_get", "profile_post", "profile_commit", "instructions", "quiz_get",
     "quiz_post", "thank_you", "pending", "send_quiz_email"}

\* C12 as stated (for a desktop user agent, which the device check lets
\* through): a request of an admin session to a gated participant route is
\* redirected to the leaderboard, renders no page and creates no row.
C12_Original ==
    [][(last'.op \in ParticipantOps /\ last'.email \in admin_emails
        /\ ~last'.mobile)
       => (/\ last'.resp = "redirect_leaderboard"
           /\ inflight' = inflight
           /\ db' = db)]_vars

\* C13 as stated: /thank_you renders the results only to a participant whose
\* approval_status is 'approved' at that time.
C13_Original ==
    (last.op = "thank_you" /\ last.resp = "render_thank_you")
    => db[last.email].approval_status = "approved"

\* C14: a quiz submission of a not-yet-submitted participant persists the
\* score, category scores and answers computed from the selected options
\* alone, and quiz_submitted, whatever submit_reason and time_up it carries
\* (so two submissions with the same options and different reasons persist the
\* same); the reason picks only the flashed message.
C14_ReasonOnlyFlash ==
    [][(last'.op = "quiz_commit" /\ ~db[last'.email].quiz_submitted)
       => (/\ \A q \in QuizLists :
                /\ db'[last'.email].score = TotalScore(q, last'.selected)
                /\ db'[last'.email].category_scores
                     = <<CategoryScores(q, last'.selected)>>
                /\ db'[last'.email].answers = <<UserAnswers(q, last'.selected)>>
           /\ db'[last'.email].quiz_submitted
           /\ last'.resp = "redirect_thank_you"
           /\ last'.flash = ReasonFlash(last'.input, last'.time_up))]_vars

C14_Witness ==
    /\ last.op = "quiz_commit"
    /\ last.input = "violation"
    /\ last.flash = "auto_submitted_violation"
    /\ last.selected["q11"] = <<"Daughter">>
    /\ db[last.email].score = 2
    /\ db[last.email].category_scores = <<[Math |-> 0, Reasoning |-> 1, Verbal |-> 1]>>

ProfileOps == {"profile_get", "profile_post", "profile_commit"}

\* C15 as stated: there is at most one record per email, and a profile request
\* of a user who has a record is redirected to /instructions and leaves the
\* table alone.
C15_Original ==
    [][/\ \A e \in Emails : inserted'[e] <= 1
       /\ (last'.op \in ProfileOps /\ last'.email \in Emails
           /\ db[last'.email].exists)
          => (/\ last'.resp = "redirect_instructions"
              /\ db' = db /\ inserted' = inserted)]_vars

\* C15: there is at most one record per email, also after overlapping POSTs
\* to /profile; a profile request of a user who has a record leaves the table
\* alone and is redirected to /instructions, except that a mobile user agent
\* is redirected to /device-restricted, and that a POST which found no record
\* when it looked and whose insert then hits the record of an overlapping POST
\* gets the form again with an error message.
C15_OneRecord ==
    [][/\ \A e \in Emails :
            /\ inserted'[e] <= 1
            /\ db'[e].exists <=> inserted'[e] = 1
       /\ (last'.op \in ProfileOps /\ last'.email \in Emails
           /\ db[last'.email].exists)
          => (/\ last'.resp = (IF last'.op = "profile_commit" THEN "render_profile"
                               ELSE IF last'.mobile THEN "redirect_device_restricted"
                               ELSE "redirect_instructions")
              /\ last'.op = "profile_commit" => last'.flash = "error"
              /\ inflight' = inflight \/ last'.op = "profile_commit"
              /\ db' = db /\ inserted' = inserted)]_vars

\* the second of two overlapping POSTs has just hit the unique email
C15_Witness ==
    /\ last.op = "profile_commit"
    /\ last.resp = "render_profile"
    /\ last.email \in UserEmails
    /\ inserted[last.email] = 1
    /\ db[last.email].exists

\* C16: approve and reject change nothing but the approval_status of the row
\* they name: its other columns, and every column of every other row, stay as
\* they are; and no step of any operation removes a row.
C16_Frame ==
    [][/\ last'.op \in {"admin_approve", "admin_reject"}
          => \A e \in Emails :
               /\ \A c \in Columns \ {"approval_status"} : db'[e][c] = db[e][c]
               /\ e \notin RowOfPid(last'.pid) => db'[e] = db[e]
       /\ \A e \in Emails :
            /\ db[e].exists => db'[e].exists
            /\ inserted'[e] >= inserted[e]]_vars

\* a reject has just been applied to a submitted row holding results, next to
\* another row whose status differs
C16_Witness ==
    /\ last.op = "admin_reject"
    /\ last.resp = "json_ok"
    /\ \E e \in RowOfPid(last.pid) :
         /\ db[e].approval_status = "pending"
         /\ db[e].quiz_submitted
         /\ db[e].score = 2
         /\ \E o \in Emails \ {e} :
               db[o].exists /\ db[o].approval_status = "approved"

\* C17: the request that starts a background send is answered with the
\* success message and the redirect to /thank_you; the end of a send,
\* delivered or failed, before or after that response goes out, leaves the
\* response and its message as they are, starts no other send and changes no
\* row; only /send_quiz_email starts a send.
C17_FireAndForget ==
    [][/\ BagCardinality(threads') > BagCardinality(threads)
          => (/\ last'.op = "send_quiz_email"
              /\ last'.resp = "redirect_thank_you"
              /\ last'.flash = "results_emailed"
              /\ db[last'.email].quiz_submitted)
       /\ last'.op = "send_email_later"
          => (/\ BagCardinality(threads') = BagCardinality(threads) - 1
              /\ last'.resp = last.resp
              /\ last'.flash = last.flash
              /\ db' = db)]_vars

\* a send has failed before the response of the request that started it went
\* out
C17_Witness ==
    /\ last.op = "send_email_later"
    /\ last.mail = "logged_error"
    /\ last.resp = "redirect_thank_you"
    /\ last.flash = "results_emailed"
    /\ threads = EmptyBag

\* C18 as stated: in a delivered report the number of questions flagged
\* correct equals the score the report shows.
C18_Original ==
    (last.op = "send_email_later" /\ last.mail = "sent")
    => LET r == last.report[1]
       IN Cardinality({i \in 1..Len(r.status) : r.status[i]}) = r.score

NoRecordOps == {"instructions", "quiz_get", "quiz_post", "thank_you"}

\* C19 as stated: a logged-in non-admin user without a record who asks for
\* /instructions, /quiz or /thank_you is redirected to /profile, and the
\* request creates no row and starts no scoring.
C19_Original ==
    [][(last'.op \in NoRecordOps /\ last'.email \in UserEmails
        /\ ~db[last'.email].exists)
       => (/\ last'.resp = "redirect_profile"
           /\ inflight' = inflight
           /\ db' = db)]_vars

\* C19: such a request creates no row and starts no scoring, and is
\* redirected to /profile, except that a mobile user agent asking for
\* /instructions or /quiz is redirected to /device-restricted.
C19_NoRecord ==
    [][(last'.op \in NoRecordOps /\ last'.email \in UserEmails
        /\ ~db[last'.email].exists)
       => (/\ last'.resp = (IF last'.mobile /\ last'.op # "thank_you"
                            THEN "redirect_device_restricted"
                            ELSE "redirect_profile")
           /\ inflight' = inflight
           /\ db' = db /\ inserted' = inserted)]_vars

C19_Witness ==
    /\ last.op = "thank_you"
    /\ last.email \in UserEmails
    /\ ~db[last.email].exists
    /\ last.resp = "redirect_profile"
    /\ last.flash = "complete_profile_first"

\* C20 as stated, its last step: the quiz POST of a participant who submitted
\* a profile and was approved, in which k selected answers match the stored
\* answers, leaves score = k and quiz_submitted = true and redirects to
\* /thank_you.
C20_Original ==
    [][(last'.op = "quiz_commit" /\ last'.email \in UserEmails
        /\ last'.email \in ever_approved /\ inserted[last'.email] = 1)
       => (/\ \A q \in QuizLists :
                db'[last'.email].score = TotalScore(q, last'.selected)
           /\ db'[last'.email].quiz_submitted
           /\ last'.resp = "redirect_thank_you")]_vars

\* C21: the leaderboard data an admin gets lists exactly the rows with
\* quiz_submitted = true, each once, with their scores, in non-increasing
\* order of score; a row that is not submitted is not listed, whatever its
\* approval_status.
C21_Leaderboard ==
    (last.op = "leaderboard_data" /\ last.resp = "json_ok")
    => LET data == last.shown IN
       /\ {data[i].email : i \in 1..Len(data)}
            = {e \in DOMAIN db : db[e].exists /\ db[e].quiz_submitted}
       /\ \A i, j \in 1..Len(data) : i # j => data[i].email # data[j].email
       /\ \A i \in 1..Len(data) : data[i].score = db[data[i].email].score
       /\ \A i, j \in 1..Len(data) : i < j => data[i].score >= data[j].score

\* two submitted rows of different scores are listed, the later-named first,
\* and an approved row that is not submitted is left out
C21_Witness ==
    /\ last.op = "leaderboard_data"
    /\ last.resp = "json_ok"
    /\ Len(last.shown) = 2
    /\ last.shown[1] = [email |-> "u3@x", score |-> 2]
    /\ last.shown[2] = [email |-> "u1@x", score |-> 1]
    /\ db["u2@x"].exists /\ db["u2@x"].approval_status = "approved"
    /\ db["u1@x"].approval_status = "pending"

\* C22: an admin's approve or reject whose id names no row is answered with
\* status 404 and the body {success: false, error}, and changes no row.
C22_NotFound ==
    [][(last'.op \in {"admin_approve", "admin_reject"}
        /\ last'.email \in admin_emails
        /\ \A e \in Emails : db[e].exists => PidOf(e) # last'.pid)
       => (/\ Len(last'.shown) = 1
           /\ last'.shown[1].status = 404
           /\ last'.shown[1].body.success = FALSE
           /\ "error" \in DOMAIN last'.shown[1].body
           /\ db' = db
           /\ ever_approved' = ever_approved)]_vars

\* an approve for an id of no row, while a pending row of another id exists
C22_Witness ==
    /\ last.op = "admin_approve"
    /\ last.email \in admin_emails
    /\ last.pid = 3
    /\ last.shown = <<NotFound>>
    /\ \E e \in UserEmails : db[e].exists /\ db[e].approval_status = "pending"

\* C23 as stated: after a user-info response that is not OK the user is sent
\* to the home page and the session is unauthenticated.
C23_Original ==
    [][(last'.op = "google_login" /\ last'.input = "not_ok")
       => (/\ last'.resp = "redirect_index"
           /\ \E s \in Sessions :
                session[s] = last'.email /\ session'[s] = NoEmail)]_vars

\* C23: after a user-info response that is not OK the user is sent to the
\* home page and the session is as it was: it gains no user_email, so an
\* unauthenticated session stays unauthenticated, and a session that already
\* held an identity keeps it; no row changes.
C23_LoginFailure ==
    [][(last'.op = "google_login" /\ last'.input = "not_ok")
       => (/\ last'.resp = "redirect_index"
           /\ last'.flash = "login_failed"
           /\ session' = session
           /\ db' = db)]_vars

\* the failure has just happened in a session that holds an earlier identity
C23_Witness ==
    /\ last.op = "google_login"
    /\ last.input = "not_ok"
    /\ last.resp = "redirect_index"
    /\ last.email \in UserEmails
    /\ \E s \in Sessions : session[s] = last.email

\* C24 as stated: logout leaves the session without identity and changes no
\* row; until a successful login, every request of the session to an
\* authenticated route is redirected to the home page.
C24_Original ==
    [][/\ last'.op = "logout"
          => (/\ \E s \in Sessions : session' = [session EXCEPT ![s] = NoEmail]
              /\ db' = db)
       /\ \A s \in Sessions :
            (session[s] = NoEmail /\ session'[s] # NoEmail)
            => (last'.op = "google_login" /\ last'.input = "ok")
       /\ (last'.op \in AuthOps /\ last'.email = NoEmail)
          => last'.resp = "redirect_index"]_vars

\* C24: logout leaves the session without identity and changes no row; the
\* session gets an identity again only by a successful login, and until then
\* every request of the session to an authenticated route is redirected and
\* changes nothing: to /device-restricted when a mobile user agent asks for
\* /profile, /instructions or /quiz, to the home page otherwise.
C24_Logout ==
    [][/\ last'.op = "logout"
          => (/\ \E s \in Sessions : session' = [session EXCEPT ![s] = NoEmail]
              /\ last'.resp = "redirect_index"
              /\ db' = db /\ inserted' = inserted)
       /\ \A s \in Sessions :
            (session[s] = NoEmail /\ session'[s] # NoEmail)
            => (last'.op = "google_login" /\ last'.input = "ok")
       /\ (last'.op \in AuthOps /\ last'.email = NoEmail)
          => (/\ last'.resp = (IF last'.mobile THEN "redirect_device_restricted"
                               ELSE "redirect_index")
              /\ session' = session
              /\ db' = db /\ inflight' = inflight /\ threads' = threads)]_vars

\* a session that had submitted a quiz has logged out and is refused its
\* results page
C24_Witness ==
    /\ last.op = "thank_you"
    /\ last.email = NoEmail
    /\ last.resp = "redirect_index"
    /\ \A s \in Sessions : session[s] = NoEmail
    /\ \E e \in UserEmails : db[e].quiz_submitted

\* C25: after every step, a row that is not submitted has score 0 and no
\* answers, questions or category scores; a submitted row has all three, with
\* exactly one answers entry per persisted question id; and a submitted row
\* stays submitted.
C25_ResultFields ==
    [][\A e \in Emails :
         /\ (db'[e].exists /\ ~db'[e].quiz_submitted)
            => (/\ db'[e].score = 0
                /\ db'[e].answers = <<>>
                /\ db'[e].questions = <<>>
                /\ db'[e].category_scores = <<>>)
         /\ db'[e].quiz_submitted
            => (/\ db'[e].exists
                /\ Len(db'[e].answers) = 1
                /\ Len(db'[e].questions) = 1
                /\ Len(db'[e].category_scores) = 1
                /\ DOMAIN db'[e].answers[1]
                     = {StrOf(db'[e].questions[1][i].id) :
                          i \in 1..Len(db'[e].questions[1])}
                /\ \A i, j \in 1..Len(db'[e].questions[1]) :
                      i # j => db'[e].questions[1][i].id # db'[e].questions[1][j].id)
         /\ db[e].quiz_submitted => db'[e].quiz_submitted]_vars

\* a second, overlapping submission has just been committed over the first,
\* and the row was set back to pending
C25_Witness ==
    /\ last.op = "admin_reject"
    /\ last.resp = "json_ok"
    /\ \E e \in RowOfPid(last.pid) :
         /\ db[e].quiz_submitted
         /\ db[e].score = 1
         /\ db[e].answers[1]["1"] = <<>>
         /\ db[e].approval_status = "pending"

\* the ids of the whole bank, and of a question list
BankIds ==
    UNION {{questions_by_category[c][i].id :
              i \in 1..Len(questions_by_category[c])} :
           c \in DOMAIN questions_by_category}

IdsOf(list) == {list[i].id : i \in 1..Len(list)}

\* C26: every list rendered by GET /quiz and every list scored and persisted
\* by POST /quiz holds the ids of the whole bank, so the ids scored are the
\* ids rendered by the earlier GET although the list is generated anew; the
\* answers are keyed by those ids and the persisted score is between 0 and
\* the size of the bank.
C26_FullBank ==
    [][/\ (last'.op = "quiz_get" /\ last'.resp = "render_quiz")
          => IdsOf(served'[last'.email][1]) = BankIds
       /\ last'.op = "quiz_commit"
          => (/\ IdsOf(db'[last'.email].questions[1]) = BankIds
              /\ DOMAIN db'[last'.email].answers[1] = {StrOf(id) : id \in BankIds}
              /\ served[last'.email] # <<>>
                 => IdsOf(db'[last'.email].questions[1])
                      = IdsOf(served[last'.email][1])
              /\ db'[last'.email].score \in 0..Cardinality(BankIds))]_vars

\* a submission has persisted a list that is not the list the GET rendered
\* and has scored every question of the bank right but the first
C26_Witness ==
    /\ last.op = "quiz_commit"
    /\ served[last.email] # <<>>
    /\ db[last.email].questions # served[last.email]
    /\ IdsOf(db[last.email].questions[1]) = IdsOf(served[last.email][1])
    /\ db[last.email].score = Cardinality(BankIds) - 1

\* C27: /send_quiz_email starts a send only for a caller whose row exists, is
\* submitted and holds a non-empty question list, and otherwise redirects and
\* starts none; every request that is accepted starts one more send, also
\* while sends of the same results are still running.
C27_SendGuard ==
    [][last'.op = "send_quiz_email"
       => LET e == last'.email
              accepted == /\ e # NoEmail
                          /\ db[e].exists
                          /\ db[e].quiz_submitted
                          /\ db[e].questions # <<>>
                          /\ db[e].questions[1] # <<>>
          IN IF accepted
             THEN /\ threads' = threads (+) SetToBag({[email |-> e,
                                     questions |-> db[e].questions[1],
                                     answers |-> db[e].answers[1],
                                     score |-> db[e].score]})
                  /\ BagCardinality(threads') = BagCardinality(threads) + 1
             ELSE /\ threads' = threads
                  /\ last'.resp \in Redirects]_vars

\* a second request has started a second send of the same results while the
\* first is still running
C27_Witness ==
    /\ last.op = "send_quiz_email"
    /\ last.flash = "results_emailed"
    /\ \E t \in BagToSet(threads) : CopiesIn(t, threads) = 2
====
